---- MODULE Spec2Model ----
(***************************************************************************)
(* USCIS case-status poller: the batch scheduler script with the SIGINT    *)
(* handler (recursiveHelper / retrieveCaseStatus / processFinalResults).   *)
(*                                                                         *)
(* Conventions of the model                                                *)
(*   - a JavaScript string is a sequence of one-character strings;         *)
(*   - a JavaScript number that may exceed 32 bits (a case number) is a    *)
(*     pair [hi, lo] standing for hi * LIMB + lo;                          *)
(*   - an optional value (a property that may be undefined) is a sequence  *)
(*     of length 0 or 1;                                                   *)
(*   - a raised exception is the value "TypeError" of the operator that    *)
(*     raises it.                                                          *)
(***************************************************************************)
EXTENDS Integers, Sequences, FiniteSets, TLC

VARIABLES
    pc,         \* where the process is: "start", "batch", "finished", "exited", "crashed"
    options,    \* the options object handed to run()
    now,        \* the wall clock, in seconds (moment().unix())
    BLOCKED,    \* global: the IP block was detected
    results,    \* global: results accumulated for the graceful shutdown
    data,       \* run's data object {prefix, intervalSize, end}
    current,    \* the current of the latest recursiveHelper call (the cursor)
    acc,        \* the acc of the latest recursiveHelper call
    batch,      \* async.map's state: per lookup its caseNum, whether it returned, its
                \* result, and the how-manieth of its batch it was to return (rank)
    issued,     \* history: every identifier a lookup was issued for, per batch
    returned,   \* history: every result a lookup handed to async.map: [batch, index, item]
    fsPending,  \* fs.writeFile calls whose write has not happened yet
    files,      \* the files written so far
    console,    \* what writeStats printed and what the write callbacks logged
    finals,     \* history: the argument of every processFinalResults call
    hash,       \* what run's final callback received (optional)
    arg,        \* input of the function under test (function specifications)
    ret         \* its output

vars == <<pc, options, now, BLOCKED, results, data, current, acc, batch, issued, returned,
          fsPending, files, console, finals, hash, arg, ret>>

None == <<>>
Some(x) == <<x>>

(***************************************************************************)
(* Numbers                                                                 *)
(***************************************************************************)
LIMB == 10^9
LimbDigits == 9 + 0

Num(n) == [hi |-> 0, lo |-> n]

\* _.add(a, index) and start + total, on a case number and a small integer
add(a, i) ==
    LET s == a.lo + i IN
    IF a.hi > 0 /\ s < 0 THEN [hi |-> a.hi - 1, lo |-> s + LIMB]
    ELSE IF s >= LIMB THEN [hi |-> a.hi + 1, lo |-> s - LIMB]
    ELSE [hi |-> a.hi, lo |-> s]

\* a >= b
geq(a, b) == a.hi > b.hi \/ (a.hi = b.hi /\ a.lo >= b.lo)

Digit == <<"0", "1", "2", "3", "4", "5", "6", "7", "8", "9">>

DigitValue(c) == (CHOOSE d \in 1..10 : Digit[d] = c) - 1

IsDigit(c) == \E d \in 1..10 : Digit[d] = c

RECURSIVE NatStr(_)
NatStr(n) == IF n < 10 THEN <<Digit[n + 1]>>
             ELSE NatStr(n \div 10) \o <<Digit[(n % 10) + 1]>>

\* num + "" : the decimal representation of a number
numToString(num) ==
    IF num.hi = 0
    THEN IF num.lo < 0 THEN <<"-">> \o NatStr(0 - num.lo) ELSE NatStr(num.lo)
    ELSE NatStr(num.hi) \o
         [i \in 1..LimbDigits |-> Digit[((num.lo \div 10^(LimbDigits - i)) % 10) + 1]]

RECURSIVE ParseNat(_)
ParseNat(s) == IF s = <<>> THEN 0
               ELSE ParseNat(SubSeq(s, 1, Len(s) - 1)) * 10 + DigitValue(s[Len(s)])

\* parseInt(x) of a number x: the integer its decimal representation denotes
parseInt(num) ==
    LET s == numToString(num) IN
    IF s[1] = "-" THEN Num(0 - ParseNat(Tail(s)))
    ELSE IF Len(s) <= LimbDigits THEN Num(ParseNat(s))
    ELSE [hi |-> ParseNat(SubSeq(s, 1, Len(s) - LimbDigits)),
          lo |-> ParseNat(SubSeq(s, Len(s) - LimbDigits + 1, Len(s)))]

(***************************************************************************)
(* Identifier generator                                                    *)
(***************************************************************************)
caseNumLength == 10

RECURSIVE padLoop(_, _)
padLoop(s, size) == IF Len(s) < size THEN padLoop(<<"0">> \o s, size) ELSE s

RECURSIVE padLoopOffByOne(_, _)
padLoopOffByOne(s, size) == IF Len(s) <= size THEN padLoopOffByOne(<<"0">> \o s, size) ELSE s

\* a faulty pad: the loop runs while s.length <= size
padOffByOne(num, size) == padLoopOffByOne(numToString(num), size)

pad(num, size) == padLoop(numToString(num), size)

\* a faulty getParams: the index is not added to the start
getParamsNoIndex(prefix, start, number) ==
    [index \in 1..number |-> prefix \o pad(parseInt(start), caseNumLength)]

\* a faulty getParams: one identifier too many
getParamsOneMore(prefix, start, number) ==
    [index \in 1..(number + 1) |-> prefix \o pad(add(parseInt(start), index - 1), caseNumLength)]

getParams(prefix, start, number) ==
    [index \in 1..number |-> prefix \o pad(add(parseInt(start), index - 1), caseNumLength)]

(***************************************************************************)
(* Dates (moment)                                                          *)
(*   a moment is [valid, unix]; an invalid moment's unix() is NaN.         *)
(*   a body text is [dated, day]: whether it starts with a date in the     *)
(*   expected format, and which day that is.                               *)
(*   a date label (format "dddd, MMMM Do YYYY") is [valid, day]; the label *)
(*   of an invalid moment is "Invalid date".                               *)
(***************************************************************************)
DaySecs == 24 * 60 * 60
NaN == 0 - 1

InvalidMoment == [valid |-> FALSE, unix |-> NaN]

\* moment()
momentNow(t) == [valid |-> TRUE, unix |-> t]

\* moment(dateString, "MMM DD  YYYY") of the date token of a body text
momentParse(text) ==
    IF text.dated THEN [valid |-> TRUE, unix |-> text.day * DaySecs] ELSE InvalidMoment

\* date.format("dddd, MMMM Do YYYY")
format(m) ==
    IF m.valid THEN [valid |-> TRUE, day |-> m.unix \div DaySecs]
    ELSE [valid |-> FALSE, day |-> 0]

\* moment(key, "dddd, MMMM Do YYYY")
momentOfLabel(label) ==
    IF label.valid THEN [valid |-> TRUE, unix |-> label.day * DaySecs] ELSE InvalidMoment

\* date.unix()
unix(m) == IF m.valid THEN m.unix ELSE NaN

\* a faulty getDate: a missing text gives an invalid date instead of the current time
getDateNoFallback(text, t) ==
    LET date == IF text = None THEN InvalidMoment ELSE momentParse(text[1])
    IN [date |-> date, string |-> format(date)]

\* a faulty getDate: a text without a date falls back to moment() as well
getDateOfClock(text, t) ==
    LET date == IF text = None \/ ~text[1].dated THEN momentNow(t) ELSE momentParse(text[1])
    IN [date |-> date, string |-> format(date)]

\* utils.getDate(data) at time t; data is optional: data.split throws on
\* undefined and the catch substitutes moment()
getDate(text, t) ==
    LET date == IF text = None THEN momentNow(t) ELSE momentParse(text[1])
    IN [date |-> date, string |-> format(date)]

(***************************************************************************)
(* Status classifier                                                       *)
(***************************************************************************)
titleToType ==
    ("Biometrics Appointment Was Scheduled" :> "BIO") @@
    ("Case Was Received and A Receipt Notice Was Emailed" :> "NOTICE") @@
    ("Decision Notice Mailed" :> "APPROVED") @@
    ("Request for Additional Evidence Was Mailed" :> "EVIDENCE_REQUEST") @@
    ("Card Was Delivered To Me By The Post Office" :> "CARD_ISSUED") @@
    ("Interview Was Scheduled" :> "INTERVIEW") @@
    ("Withdrawal Acknowledgement Notice Was Sent" :> "WITHDRAWN") @@
    ("Notice Explaining USCIS' Actions Was Mailed" :> "EXPLAIN") @@
    ("Card Is Being Produced" :> "CARD_ISSUED") @@
    ("Case Approved" :> "APPROVED") @@
    ("Case Was Approved" :> "APPROVED") @@
    ("Response To USCIS' Request For Evidence Was Received" :> "EVIDENCE_REQUEST") @@
    ("Card Was Produced" :> "CARD_ISSUED") @@
    ("Case Was Suspended Because My Fee Was Returned by My Bank" :> "SUSPENDED") @@
    ("Case Rejected Because I Sent An Incorrect Fee" :> "REJECTED")

\* a faulty getType: a heading that is not a key is looked up all the same
getTypeNoDefault(key) == IF key \in DOMAIN titleToType THEN titleToType[key] ELSE "undefined"

\* infoParser's getType
getType(key) == IF key \in DOMAIN titleToType THEN titleToType[key] ELSE "UNKNOWN"

\* utils.infoParser(text, title) at time t
infoParser(text, title, t) ==
    [data |-> <<text, title>>, type |-> getType(title), date |-> getDate(Some(text), t)]

(***************************************************************************)
(* A response document (dom), as far as the selectors read it:             *)
(*   title, text : optional, what utils.extract gives for "div.rows h1"    *)
(*                 and "div.rows p" (None when extract returns null)       *)
(*   label       : optional, the "for" attribute of the first <label>      *)
(*   h4          : optional, the words of the raw text of the first        *)
(*                 "#formErrorMessages h4"                                 *)
(*   error       : the html parser reports an error instead of a dom       *)
(***************************************************************************)
\* a faulty getErrorType: the access-violation label is not recognised
getErrorTypeNoBlock(dom) ==
    IF dom.label = Some("receipt_number")
    THEN IF dom.h4 = None THEN "TypeError"
         ELSE IF dom.h4[1][1] = "Validation" THEN "NOT_FOUND" ELSE "UNKNOWN"
    ELSE "UNKNOWN"

\* utils.getErrorType(dom); _.get(error, "0.children.0.raw") is undefined when
\* there is no h4, and undefined.split raises a TypeError
getErrorType(dom) ==
    IF dom.label = Some("accessviolation") THEN "BLOCKED"
    ELSE IF dom.label = Some("receipt_number")
         THEN IF dom.h4 = None THEN "TypeError"
              ELSE IF dom.h4[1][1] = "Validation" THEN "NOT_FOUND" ELSE "UNKNOWN"
         ELSE "UNKNOWN"

\* utils.extractInfo(rawHTML, callback) at time t: what the callback is called
\* with, [err, res] (both optional), or threw when getErrorType raised
extractInfo(dom, t) ==
    IF dom.error THEN [threw |-> FALSE, err |-> Some("ParserError"), res |-> None]
    ELSE IF dom.title = None \/ dom.text = None
    THEN LET type == getErrorType(dom) IN
         IF type = "TypeError"
         THEN [threw |-> TRUE, err |-> None, res |-> None]
         ELSE [threw |-> FALSE, err |-> Some(type), res |-> None]
    ELSE [threw |-> FALSE, err |-> None,
          res |-> Some(infoParser(dom.text[1], dom.title[1], t))]

\* what the classifier writes with console.log: getType on a heading that is
\* not a key, getErrorType on an unknown failure, extractInfo on a parser error
getTypeLog(key) == IF key \in DOMAIN titleToType THEN <<>> ELSE << <<"unknown key", key>> >>

getErrorTypeLog(dom) ==
    IF getErrorType(dom) = "UNKNOWN" THEN << <<"unknown error type">> >> ELSE <<>>

extractInfoLog(dom) ==
    IF dom.error THEN << <<"error parsing page">> >>
    ELSE IF dom.title = None \/ dom.text = None THEN getErrorTypeLog(dom)
    ELSE getTypeLog(dom.title[1])

(***************************************************************************)
(* Case poller                                                             *)
(*   a reply of the transport is [err, body]; the outcome of the request   *)
(*   callback is [threw, blocked, item]: whether an exception escaped it,  *)
(*   whether it set BLOCKED, and the result handed to the completion       *)
(*   callback (optional: none when it threw).                              *)
(*   a result item is a record of optional properties.                     *)
(***************************************************************************)
defaultReturn(caseNum, t) ==
    [caseNum |-> Some(caseNum), type |-> Some("FAILED"),
     date |-> Some(getDate(None, t)), data |-> Some(<<>>)]

\* _.extend({type: "NEXIST"}): an object with the type property alone
nexistReturn == [caseNum |-> None, type |-> Some("NEXIST"), date |-> None, data |-> None]

\* a faulty retrieveCaseStatus: a block is recorded like a missing case
retrieveCaseStatusBlockAsNexist(caseNum, reply, t) ==
    IF reply.err THEN [threw |-> FALSE, blocked |-> FALSE, item |-> Some(defaultReturn(caseNum, t))]
    ELSE LET x == extractInfo(reply.body, t) IN
         IF x.threw THEN [threw |-> TRUE, blocked |-> FALSE, item |-> None]
         ELSE IF x.err # None
         THEN IF x.err[1] \in {"BLOCKED", "NOT_FOUND"}
              THEN [threw |-> FALSE, blocked |-> FALSE, item |-> Some(nexistReturn)]
              ELSE [threw |-> FALSE, blocked |-> FALSE, item |-> Some(defaultReturn(caseNum, t))]
         ELSE [threw |-> FALSE, blocked |-> FALSE,
               item |-> Some([caseNum |-> Some(caseNum), type |-> Some(x.res[1].type),
                              date |-> Some(x.res[1].date), data |-> Some(x.res[1].data)])]

\* the request callback of utils.retrieveCaseStatus(caseNum, callback) at time t
retrieveCaseStatus(caseNum, reply, t) ==
    IF reply.err THEN [threw |-> FALSE, blocked |-> FALSE, item |-> Some(defaultReturn(caseNum, t))]
    ELSE LET x == extractInfo(reply.body, t) IN
         IF x.threw THEN [threw |-> TRUE, blocked |-> FALSE, item |-> None]
         ELSE IF x.err # None
         THEN IF x.err[1] = "BLOCKED"
              THEN [threw |-> FALSE, blocked |-> TRUE, item |-> Some(defaultReturn(caseNum, t))]
              ELSE IF x.err[1] = "NOT_FOUND"
              THEN [threw |-> FALSE, blocked |-> FALSE, item |-> Some(nexistReturn)]
              ELSE [threw |-> FALSE, blocked |-> FALSE, item |-> Some(defaultReturn(caseNum, t))]
         ELSE [threw |-> FALSE, blocked |-> FALSE,
               item |-> Some([caseNum |-> Some(caseNum), type |-> Some(x.res[1].type),
                              date |-> Some(x.res[1].date), data |-> Some(x.res[1].data)])]

(***************************************************************************)
(* Sorting (lodash _.sortBy on a numeric key)                              *)
(***************************************************************************)
\* a faulty compareAscending: the greater value compares smaller
compareDescending(value, other) ==
    IF value = NaN THEN 1
    ELSE IF other = NaN THEN 0 - 1
    ELSE IF value > other THEN 0 - 1
    ELSE IF value < other THEN 1
    ELSE 0

\* lodash compareAscending on numbers: NaN is not reflexive, so it compares
\* greater than everything, itself included
compareAscending(value, other) ==
    IF value = NaN THEN 1
    ELSE IF other = NaN THEN 0 - 1
    ELSE IF value > other THEN 1
    ELSE IF value < other THEN 0 - 1
    ELSE 0

\* baseSortBy's comparer on the elements at indices a and b: the keys, then
\* the original index
comparer(keys, a, b) ==
    LET c == compareAscending(keys[a], keys[b]) IN IF c # 0 THEN c ELSE a - b

RECURSIVE Perms(_)
Perms(S) == IF S = {} THEN {<<>>}
            ELSE UNION {{<<x>> \o p : p \in Perms(S \ {x})} : x \in S}

\* The orders Array.prototype.sort can leave the indices in: every pair the
\* comparer orders consistently is in that order. Two NaN keys each compare
\* greater than the other, and their order is the engine's choice.
sortOrders(keys) ==
    {p \in Perms(DOMAIN keys) :
        \A i, j \in DOMAIN keys :
            (i < j) => ~(comparer(keys, p[j], p[i]) < 0 /\ comparer(keys, p[i], p[j]) > 0)}

\* _.sortBy(rows, key): the possible results
sortBy(rows, keys) == {[i \in DOMAIN rows |-> rows[p[i]]] : p \in sortOrders(keys)}

(***************************************************************************)
(* Aggregator                                                              *)
(*   the grouping object is a sequence, in insertion order of the keys, of *)
(*   [date, metadata, types]: the date label, the _metadata property       *)
(*   (optional, added by writeStats), and the buckets in insertion order   *)
(*   of their type.                                                        *)
(***************************************************************************)
itemDate(item, t) == IF item.date = None THEN momentNow(t) ELSE item.date[1].date

itemDateString(item, t) ==
    IF item.date = None THEN format(momentNow(t)) ELSE item.date[1].string

itemType(item) == IF item.type = None THEN "UNKNOWN" ELSE item.type[1]

\* where the grouping holds a date label, and a date's buckets a type (0: nowhere)
dateIndex(groups, dateString) ==
    IF \E i \in DOMAIN groups : groups[i].date = dateString
    THEN CHOOSE i \in DOMAIN groups : groups[i].date = dateString ELSE 0

typeIndex(types, type) ==
    IF \E i \in DOMAIN types : types[i].type = type
    THEN CHOOSE i \in DOMAIN types : types[i].type = type ELSE 0

\* a faulty groupStep: a bucket found is replaced by a fresh one
groupStepForgets(groups, item, t) ==
    LET dateString == itemDateString(item, t)
        type == itemType(item)
        fresh == [items |-> <<>>, total |-> 0, type |-> type, date |-> dateString,
                  unix |-> unix(itemDate(item, t))]
        di == dateIndex(groups, dateString)
        ti == IF di = 0 THEN 0 ELSE typeIndex(groups[di].types, type)
        pushed == [fresh EXCEPT !.items = Append(@, item), !.total = @ + 1]
    IN IF di = 0
       THEN Append(groups, [date |-> dateString, metadata |-> None, types |-> <<pushed>>])
       ELSE IF ti = 0
       THEN [groups EXCEPT ![di].types = Append(@, pushed)]
       ELSE [groups EXCEPT ![di].types[ti] = pushed]

\* one step of the reduce in utils.group
groupStep(groups, item, t) ==
    LET dateString == itemDateString(item, t)
        type == itemType(item)
        fresh == [items |-> <<>>, total |-> 0, type |-> type, date |-> dateString,
                  unix |-> unix(itemDate(item, t))]
        di == dateIndex(groups, dateString)
        ti == IF di = 0 THEN 0 ELSE typeIndex(groups[di].types, type)
        value == IF ti = 0 THEN fresh ELSE groups[di].types[ti]
        pushed == [value EXCEPT !.items = Append(@, item), !.total = @ + 1]
    IN IF di = 0
       THEN Append(groups, [date |-> dateString, metadata |-> None, types |-> <<pushed>>])
       ELSE IF ti = 0
       THEN [groups EXCEPT ![di].types = Append(@, pushed)]
       ELSE [groups EXCEPT ![di].types[ti] = pushed]

RECURSIVE groupReduce(_, _, _, _)
groupReduce(res, i, groups, t) ==
    IF i > Len(res) THEN groups ELSE groupReduce(res, i + 1, groupStep(groups, res[i], t), t)

\* utils.group(res) at time t
group(res, t) == groupReduce(res, 1, <<>>, t)

(***************************************************************************)
(* Reporter                                                                *)
(***************************************************************************)
\* the _metadata writeStats attaches to every date of the grouping
withMetadata(groups) ==
    [i \in DOMAIN groups |->
        [groups[i] EXCEPT !.metadata =
            Some([dateString |-> groups[i].date, unix |-> unix(momentOfLabel(groups[i].date))])]]

\* a faulty writeStats: the dates are printed as the grouping iterates them
writeStatsUnsorted(groups) ==
    LET marked == withMetadata(groups)
    IN {[printed |-> [i \in DOMAIN marked |->
                        [date |-> marked[i].metadata[1].dateString,
                         types |-> [k \in DOMAIN marked[i].types |->
                                      [type |-> marked[i].types[k].type,
                                       total |-> marked[i].types[k].total]]]],
         groups |-> marked]}

\* utils.writeStats(groups): the possible [printed, groups]; printed is one
\* entry per date, with one [type, total] per type, and groups is the
\* grouping as writeStats leaves it
writeStats(groups) ==
    LET marked == withMetadata(groups)
        keys == [i \in DOMAIN marked |-> marked[i].metadata[1].unix]
    IN {[printed |-> [i \in DOMAIN sorted |->
                        [date |-> sorted[i].metadata[1].dateString,
                         types |-> [k \in DOMAIN sorted[i].types |->
                                      [type |-> sorted[i].types[k].type,
                                       total |-> sorted[i].types[k].total]]]],
         groups |-> marked] : sorted \in sortBy(marked, keys)}

\* a row of the raw export
outRow(item, t) ==
    [Date |-> itemDateString(item, t), Unix |-> unix(itemDate(item, t)),
     Type |-> itemType(item), CaseNumber |-> item.caseNum]

\* a faulty flattenBuckets: one row per date, of its first bucket
RECURSIVE flattenFirstBuckets(_, _)
flattenFirstBuckets(groups, i) ==
    IF i > Len(groups) THEN <<>>
    ELSE <<[Date |-> groups[i].types[1].date, Unix |-> groups[i].types[1].unix,
            Type |-> groups[i].types[1].type, Applications |-> groups[i].types[1].total]>>
         \o flattenFirstBuckets(groups, i + 1)

\* the rows of the grouped export, before sorting: _.flatten of the buckets
RECURSIVE flattenBuckets(_, _)
flattenBuckets(groups, i) ==
    IF i > Len(groups) THEN <<>>
    ELSE [k \in DOMAIN groups[i].types |->
            [Date |-> groups[i].types[k].date, Unix |-> groups[i].types[k].unix,
             Type |-> groups[i].types[k].type, Applications |-> groups[i].types[k].total]]
         \o flattenBuckets(groups, i + 1)

\* a faulty processFinalResults: the length of res is not tested
processFinalResultsOfAny(res, t, o) ==
    LET rows == [i \in DOMAIN res |-> outRow(res[i], t)]
        groups == group(res, t)
        csvRows == flattenBuckets(groups, 1)
    IN {[temp |-> Some([stamp |-> t, rows |-> outData]),
         out |-> IF o /\ Len(csvData) > 0 THEN Some(csvData) ELSE None,
         printed |-> w.printed,
         groups |-> w.groups] :
           <<outData, csvData, w>> \in
               sortBy(rows, [i \in DOMAIN rows |-> rows[i].Unix])
               \X sortBy(csvRows, [i \in DOMAIN csvRows |-> csvRows[i].Unix])
               \X writeStats(groups)}

\* utils.processFinalResults(res) at time t with argv.o set or not: the possible
\* [temp, out, printed, groups]: the fs.writeFile calls made for the raw and the
\* grouped export (optional), what writeStats printed and the value returned
processFinalResults(res, t, o) ==
    IF Len(res) > 0
    THEN LET rows == [i \in DOMAIN res |-> outRow(res[i], t)]
             groups == group(res, t)
             csvRows == flattenBuckets(groups, 1)
         IN {[temp |-> Some([stamp |-> t, rows |-> outData]),
              out |-> IF o /\ Len(csvData) > 0 THEN Some(csvData) ELSE None,
              printed |-> w.printed,
              groups |-> w.groups] :
                <<outData, csvData, w>> \in
                    sortBy(rows, [i \in DOMAIN rows |-> rows[i].Unix])
                    \X sortBy(csvRows, [i \in DOMAIN csvRows |-> csvRows[i].Unix])
                    \X writeStats(groups)}
    ELSE {[temp |-> None, out |-> None, printed |-> <<>>, groups |-> <<>>]}

(***************************************************************************)
(* Inputs                                                                  *)
(***************************************************************************)
MaxTotal == 3
MaxLimit == 2
MaxTick == 1
MaxCount == 3
MaxLookups == 4

IOE == <<"I", "O", "E">>

Prefixes == {IOE, <<"N", "S", "C">>}

\* the usage line's case number 0900677923, and a negative one
Starts == {Num(900677923), Num(0 - 1)}

Totals == (0 - 1)..MaxTotal

Limits == 1..MaxLimit

\* the lookups a run with these options issues: whole batches of limit
lookups(o) == IF o.total <= 0 THEN 0 ELSE ((o.total + o.limit - 1) \div o.limit) * o.limit

Options == {o \in [total : Totals, prefix : {IOE}, start : Starts, limit : Limits,
                   outfile : BOOLEAN] : lookups(o) <= MaxLookups}

\* 2016-08-28 01:00:00
Now0 == 17041 * DaySecs + 3600

Text(day) == [dated |-> TRUE, day |-> day]

Undated == [dated |-> FALSE, day |-> 0]

Dom(title, text, label, h4) ==
    [title |-> title, text |-> text, label |-> label, h4 |-> h4, error |-> FALSE]

\* documents utils.extract reads a title and a text from
StatusDoms ==
    {Dom(Some("Case Was Approved"), Some(Text(17037)), None, None),
     Dom(Some("Something New"), Some(Undated), None, None)}

\* documents it does not: the block page, the validation error, a receipt
\* number label with another error heading or with none, and a page with no label
FailureDoms ==
    {Dom(None, None, Some("accessviolation"), None),
     Dom(None, None, Some("receipt_number"), Some(<<"Validation", "Error">>)),
     Dom(None, None, Some("receipt_number"), Some(<<"Server", "Error">>)),
     Dom(None, None, Some("receipt_number"), None),
     Dom(None, None, None, None)}

NoDom == Dom(None, None, None, None)

\* a body the html parser fails on
BadDom == [NoDom EXCEPT !.error = TRUE]

\* what request.post calls back with
Replies == {[err |-> TRUE, body |-> NoDom]} \cup
           {[err |-> FALSE, body |-> d] : d \in StatusDoms \cup FailureDoms \cup {BadDom}}

(***************************************************************************)
(* The process                                                             *)
(***************************************************************************)
NoFiles == [temp |-> {}, out |-> None]

NoWrites == [temp |-> <<>>, out |-> <<>>]

InitProcess ==
    /\ now = Now0
    /\ BLOCKED = FALSE
    /\ results = <<>>
    /\ data = None
    /\ current = Num(0)
    /\ acc = <<>>
    /\ batch = <<>>
    /\ issued = <<>>
    /\ returned = {}
    /\ fsPending = NoWrites
    /\ files = NoFiles
    /\ console = <<>>
    /\ finals = <<>>
    /\ hash = None

Init ==
    /\ pc = "start"
    /\ options \in Options
    /\ InitProcess
    /\ arg = None
    /\ ret = None

\* the fs.writeFile calls of one processFinalResults call, queued
queued(pending, out) ==
    [temp |-> pending.temp \o out.temp, out |-> pending.out \o out.out]

\* run's callback to recursiveHelper: final processing, then the final callback
Finalize(cur, a) ==
    \E out \in processFinalResults(a, now, options.outfile) :
        /\ finals' = Append(finals, [by |-> "run", res |-> a])
        /\ fsPending' = queued(fsPending, out)
        /\ console' = console \o out.printed
        /\ hash' = Some(out.groups)
        /\ pc' = "finished"
        /\ batch' = <<>>
        /\ current' = cur
        /\ acc' = a
        /\ UNCHANGED issued

\* recursiveHelper past its stop test: the next batch is handed to async.map
Issue(d, cur, a) ==
    LET params == getParams(d.prefix, cur, d.intervalSize) IN
    /\ batch' = [i \in DOMAIN params |-> [caseNum |-> params[i], done |-> FALSE, item |-> None, rank |-> 0]]
    /\ current' = cur
    /\ acc' = a
    /\ issued' = Append(issued, params)
    /\ pc' = "batch"
    /\ UNCHANGED <<fsPending, files, console, finals, hash>>

\* a faulty recursiveHelper: the global is not refreshed from acc
recursiveHelperStaleGlobal(d, cur, a, blocked) ==
    /\ results' = results
    /\ IF geq(cur, d.end) \/ blocked
       THEN Finalize(cur, a) /\ UNCHANGED files
       ELSE Issue(d, cur, a)

\* a faulty recursiveHelper: the blocked flag is not tested
recursiveHelperIgnoresBlock(d, cur, a, blocked) ==
    /\ results' = a
    /\ IF geq(cur, d.end)
       THEN Finalize(cur, a) /\ UNCHANGED files
       ELSE Issue(d, cur, a)

\* a faulty recursiveHelper: past the last batch it stops without calling back
recursiveHelperNoCallback(d, cur, a, blocked) ==
    /\ results' = a
    /\ IF geq(cur, d.end) \/ blocked
       THEN /\ pc' = "finished"
            /\ batch' = <<>>
            /\ current' = cur
            /\ acc' = a
            /\ UNCHANGED <<issued, fsPending, files, console, finals, hash>>
       ELSE Issue(d, cur, a)

\* utils.recursiveHelper(data, current, acc, callback), BLOCKED being blocked
recursiveHelper(d, cur, a, blocked) ==
    /\ results' = a
    /\ IF geq(cur, d.end) \/ blocked
       THEN Finalize(cur, a) /\ UNCHANGED files
       ELSE Issue(d, cur, a)

\* run(options, callback)
Run ==
    /\ pc = "start"
    /\ LET start == parseInt(options.start)
           d == [prefix |-> options.prefix, intervalSize |-> options.limit,
                 end |-> add(start, options.total)]
       IN /\ data' = d
          /\ recursiveHelper(d, start, <<>>, BLOCKED)
    /\ UNCHANGED <<options, now, BLOCKED, returned, arg, ret>>

\* a faulty batchDone: the results of the batch are appended last first
batchDoneReversed(res, blocked) ==
    recursiveHelper(data, add(current, data.intervalSize),
                    acc \o [j \in DOMAIN res |-> res[Len(res) + 1 - j]], blocked)

\* a faulty batchDone: the results of the batch replace the accumulator
batchDoneReplaces(res, blocked) ==
    recursiveHelper(data, add(current, data.intervalSize), res, blocked)

\* a faulty batchDone: the cursor advances by two widths
batchDoneSkips(res, blocked) ==
    recursiveHelper(data, add(current, 2 * data.intervalSize), acc \o res, blocked)

\* async.map's callback in recursiveHelper, all lookups of the batch having returned
batchDone(res, blocked) ==
    recursiveHelper(data, add(current, data.intervalSize), acc \o res, blocked)

\* the results of the lookups of a batch that have returned
doneItems(b) ==
    LET Test(x) == x.done
        done == SelectSeq(b, Test)
    IN [j \in DOMAIN done |-> done[j].item[1]]

\* a faulty Return: a block completes the batch at once, with the results of
\* the lookups that have returned
ReturnAbortsOnBlock(i, reply) ==
    /\ pc = "batch"
    /\ i \in DOMAIN batch
    /\ ~batch[i].done
    /\ LET r == retrieveCaseStatus(batch[i].caseNum, reply, now)
           nb == [batch EXCEPT ![i] = [caseNum |-> @.caseNum, done |-> TRUE, item |-> r.item,
                                       rank |-> Len(doneItems(batch)) + 1]]
           blocked == BLOCKED \/ r.blocked
       IN /\ ~r.threw
          /\ BLOCKED' = blocked
          /\ returned' = returned \cup
                {[batch |-> Len(issued), index |-> i, item |-> r.item[1]]}
          /\ IF (\E j \in DOMAIN nb : ~nb[j].done) /\ ~blocked
             THEN /\ batch' = nb
                  /\ UNCHANGED <<pc, results, current, acc, issued, fsPending, files,
                                 console, finals, hash>>
             ELSE batchDone(doneItems(nb), blocked)
    /\ UNCHANGED <<options, now, data, arg, ret>>

\* a faulty Return: BLOCKED is assigned from the reply whatever it held
ReturnResetsBlock(i, reply) ==
    /\ pc = "batch"
    /\ i \in DOMAIN batch
    /\ ~batch[i].done
    /\ LET r == retrieveCaseStatus(batch[i].caseNum, reply, now)
           nb == [batch EXCEPT ![i] = [caseNum |-> @.caseNum, done |-> TRUE, item |-> r.item,
                                       rank |-> Len(doneItems(batch)) + 1]]
           blocked == r.blocked
       IN /\ ~r.threw
          /\ BLOCKED' = blocked
          /\ returned' = returned \cup
                {[batch |-> Len(issued), index |-> i, item |-> r.item[1]]}
          /\ IF \E j \in DOMAIN nb : ~nb[j].done
             THEN /\ batch' = nb
                  /\ UNCHANGED <<pc, results, current, acc, issued, fsPending, files,
                                 console, finals, hash>>
             ELSE batchDone([j \in DOMAIN nb |-> nb[j].item[1]], blocked)
    /\ UNCHANGED <<options, now, data, arg, ret>>

\* the request callback of lookup i of the batch runs on a reply and hands a
\* result to async.map; the last one of the batch completes it
Return(i, reply) ==
    /\ pc = "batch"
    /\ i \in DOMAIN batch
    /\ ~batch[i].done
    /\ LET r == retrieveCaseStatus(batch[i].caseNum, reply, now)
           nb == [batch EXCEPT ![i] = [caseNum |-> @.caseNum, done |-> TRUE, item |-> r.item,
                                       rank |-> Len(doneItems(batch)) + 1]]
           blocked == BLOCKED \/ r.blocked
       IN /\ ~r.threw
          /\ BLOCKED' = blocked
          /\ returned' = returned \cup
                {[batch |-> Len(issued), index |-> i, item |-> r.item[1]]}
          /\ IF \E j \in DOMAIN nb : ~nb[j].done
             THEN /\ batch' = nb
                  /\ UNCHANGED <<pc, results, current, acc, issued, fsPending, files,
                                 console, finals, hash>>
             ELSE batchDone([j \in DOMAIN nb |-> nb[j].item[1]], blocked)
    /\ UNCHANGED <<options, now, data, arg, ret>>

\* the request callback raises: nothing catches it and the process dies
Throw(i, reply) ==
    /\ pc = "batch"
    /\ i \in DOMAIN batch
    /\ ~batch[i].done
    /\ retrieveCaseStatus(batch[i].caseNum, reply, now).threw
    /\ pc' = "crashed"
    /\ UNCHANGED <<options, now, BLOCKED, results, data, current, acc, batch, issued,
                   returned, fsPending, files, console, finals, hash, arg, ret>>

\* a faulty SIGINT handler: the final processing consumes the buffer
SIGINTConsumesBuffer ==
    /\ pc = "batch" \/ (pc = "finished" /\ fsPending # NoWrites)
    /\ \E out \in processFinalResults(results, now, options.outfile) :
        /\ finals' = Append(finals, [by |-> "SIGINT", res |-> results])
        /\ fsPending' = queued(fsPending, out)
        /\ console' = console \o out.printed
    /\ pc' = "exited"
    /\ results' = <<>>
    /\ UNCHANGED <<options, now, BLOCKED, data, current, acc, batch, issued,
                   returned, files, hash, arg, ret>>

\* process.on('SIGINT'): final processing of the global, then process.exit(0).
\* The writes it queued, and any queued before, never happen.
SIGINT ==
    /\ pc = "batch" \/ (pc = "finished" /\ fsPending # NoWrites)
    /\ \E out \in processFinalResults(results, now, options.outfile) :
        /\ finals' = Append(finals, [by |-> "SIGINT", res |-> results])
        /\ fsPending' = queued(fsPending, out)
        /\ console' = console \o out.printed
    /\ pc' = "exited"
    /\ UNCHANGED <<options, now, BLOCKED, results, data, current, acc, batch, issued,
                   returned, files, hash, arg, ret>>

Without(seq, k) == SubSeq(seq, 1, k - 1) \o SubSeq(seq, k + 1, Len(seq))

\* a queued write of a raw export happens
WriteTemp ==
    /\ pc = "finished"
    /\ \E k \in DOMAIN fsPending.temp :
        /\ files' = [files EXCEPT !.temp =
                        {f \in @ : f.stamp # fsPending.temp[k].stamp} \cup {fsPending.temp[k]}]
        /\ fsPending' = [fsPending EXCEPT !.temp = Without(@, k)]
    /\ UNCHANGED <<pc, options, now, BLOCKED, results, data, current, acc, batch, issued,
                   returned, console, finals, hash, arg, ret>>

\* a queued write of the grouped export happens
WriteOut ==
    /\ pc = "finished"
    /\ \E k \in DOMAIN fsPending.out :
        /\ files' = [files EXCEPT !.out = Some(fsPending.out[k])]
        /\ fsPending' = [fsPending EXCEPT !.out = Without(@, k)]
    /\ UNCHANGED <<pc, options, now, BLOCKED, results, data, current, acc, batch, issued,
                   returned, console, finals, hash, arg, ret>>

\* what the callback of fs.writeFile logs on an error
FailedToSave(file) == [failed |-> file]

\* a faulty WriteTempFails: the error escapes the callback and the process dies
WriteTempFailsAborts ==
    /\ pc = "finished"
    /\ \E k \in DOMAIN fsPending.temp :
        fsPending' = [fsPending EXCEPT !.temp = Without(@, k)]
    /\ pc' = "crashed"
    /\ hash' = None
    /\ UNCHANGED <<options, now, BLOCKED, results, data, current, acc, batch, issued,
                   returned, files, console, finals, arg, ret>>

\* a queued write of a raw export fails: its callback logs the error
WriteTempFails ==
    /\ pc = "finished"
    /\ \E k \in DOMAIN fsPending.temp :
        fsPending' = [fsPending EXCEPT !.temp = Without(@, k)]
    /\ console' = Append(console, FailedToSave("temp"))
    /\ UNCHANGED <<pc, options, now, BLOCKED, results, data, current, acc, batch, issued,
                   returned, files, finals, hash, arg, ret>>

\* a queued write of the grouped export fails: its callback logs the error
WriteOutFails ==
    /\ pc = "finished"
    /\ \E k \in DOMAIN fsPending.out :
        fsPending' = [fsPending EXCEPT !.out = Without(@, k)]
    /\ console' = Append(console, FailedToSave("out"))
    /\ UNCHANGED <<pc, options, now, BLOCKED, results, data, current, acc, batch, issued,
                   returned, files, finals, hash, arg, ret>>

\* nothing is left to do and the process ends
Exit ==
    /\ pc = "finished"
    /\ fsPending = NoWrites
    /\ pc' = "exited"
    /\ UNCHANGED <<options, now, BLOCKED, results, data, current, acc, batch, issued,
                   returned, fsPending, files, console, finals, hash, arg, ret>>

\* the clock advances
Tick ==
    /\ pc \in {"start", "batch", "finished"}
    /\ now < Now0 + MaxTick
    /\ now' = now + 1
    /\ UNCHANGED <<pc, options, BLOCKED, results, data, current, acc, batch, issued,
                   returned, fsPending, files, console, finals, hash, arg, ret>>

Next ==
    \/ Run
    \/ \E i \in 1..(MaxLimit + 1), reply \in Replies : Return(i, reply)
    \/ \E i \in 1..(MaxLimit + 1), reply \in Replies : Throw(i, reply)
    \/ SIGINT
    \/ WriteTemp
    \/ WriteOut
    \/ WriteTempFails
    \/ WriteOutFails
    \/ Exit
    \/ Tick

Spec == Init /\ [][Next]_vars

(***************************************************************************)
(* The run without an interrupt, every request being answered              *)
(***************************************************************************)
\* the reply to some outstanding lookup arrives and its callback runs
Answer == \E i \in 1..(MaxLimit + 1), reply \in Replies : Return(i, reply) \/ Throw(i, reply)

LiveNext ==
    \/ Run
    \/ Answer

\* the step out of the start state: the script calls run when it is loaded
Started == pc = "start" /\ pc' \in {"batch", "finished"}

\* request calls back with an error on an outstanding lookup: possible for
\* every outstanding lookup, at any time
AnsweredWithError ==
    /\ pc = "batch"
    /\ \E i \in DOMAIN batch :
        /\ ~batch[i].done
        /\ returned' = returned \cup {[batch |-> Len(issued), index |-> i,
                                       item |-> defaultReturn(batch[i].caseNum, now)]}

\* run is called, and no lookup stays outstanding for ever: request calls
\* back on every request, with a response or with an error
SpecLive == Init /\ [][LiveNext]_vars /\ WF_pc(Started) /\ WF_returned(AnsweredWithError)

(***************************************************************************)
(* The identifier generator alone                                          *)
(***************************************************************************)
\* 999999998 and 9999999998 reach a tenth and an eleventh digit
GenStarts == {Num(0), Num(7), Num(900677923), Num(999999998),
              [hi |-> 9, lo |-> 999999998], [hi |-> 12, lo |-> 5], Num(0 - 2)}

GenInputs == [prefix : Prefixes, start : GenStarts, count : (0 - 1)..MaxCount]

GenInit ==
    /\ pc = "function"
    /\ options = [total |-> 0, prefix |-> IOE, start |-> Num(0), limit |-> 1, outfile |-> FALSE]
    /\ InitProcess
    /\ arg \in {Some(x) : x \in GenInputs}
    /\ ret = None

GenApply ==
    /\ pc = "function"
    /\ ret = None
    /\ ret' = Some(getParams(arg[1].prefix, arg[1].start, arg[1].count))
    /\ UNCHANGED <<pc, options, now, BLOCKED, results, data, current, acc, batch, issued,
                   returned, fsPending, files, console, finals, hash, arg>>

GenNext == GenApply

SpecGen == GenInit /\ [][GenNext]_vars

(***************************************************************************)
(* The status classifier alone                                             *)
(***************************************************************************)
\* a heading USCIS uses that the map lacks, and the spec's example
UnknownTitles == {"Something New", "Fingerprint Fee Was Received"}

Titles == DOMAIN titleToType \cup UnknownTitles

Texts == {Undated, Text(17037), Text(17040), Text(17041)}

ClsInputs == {Dom(Some(title), Some(text), None, None) : title \in Titles, text \in Texts}
             \cup FailureDoms \cup {BadDom}

ClsInit ==
    /\ pc = "function"
    /\ options = [total |-> 0, prefix |-> IOE, start |-> Num(0), limit |-> 1, outfile |-> FALSE]
    /\ InitProcess
    /\ arg \in {Some(x) : x \in ClsInputs}
    /\ ret = None

\* utils.extractInfo on the document: its callback's arguments, and what it logged
ClsApply ==
    /\ pc = "function"
    /\ ret = None
    /\ ret' = Some(extractInfo(arg[1], now))
    /\ console' = console \o extractInfoLog(arg[1])
    /\ UNCHANGED <<pc, options, now, BLOCKED, results, data, current, acc, batch, issued,
                   returned, fsPending, files, finals, hash, arg>>

\* utils.extractInfo on the same document a second time, now or a day later
ClsAgain ==
    /\ pc = "function"
    /\ ret # None
    /\ Len(ret) = 1
    /\ \E t \in {now, now + DaySecs} :
        /\ now' = t
        /\ ret' = Append(ret, extractInfo(arg[1], t))
    /\ console' = console \o extractInfoLog(arg[1])
    /\ UNCHANGED <<pc, options, BLOCKED, results, data, current, acc, batch, issued,
                   returned, fsPending, files, finals, hash, arg>>

ClsNext ==
    \/ ClsApply
    \/ ClsAgain

SpecCls == ClsInit /\ [][ClsNext]_vars

(***************************************************************************)
(* The aggregator and the reporter alone                                   *)
(***************************************************************************)
MaxItems == 3

AggIds == getParams(IOE, Num(900677923), 2)

\* a status page dated on the day of Now0
CardDom == Dom(Some("Card Was Produced"), Some(Text(17041)), None, None)

AggReplies == {reply \in Replies : ~retrieveCaseStatus(AggIds[1], reply, Now0).threw}
              \cup {[err |-> FALSE, body |-> CardDom]}

\* the results retrieveCaseStatus hands over for these identifiers, now and a
\* second earlier
AggItems == {retrieveCaseStatus(AggIds[i], reply, t).item[1] :
                i \in DOMAIN AggIds, reply \in AggReplies, t \in {Now0 - 1, Now0}}

AggInputs == [res : UNION {[1..n -> AggItems] : n \in 0..MaxItems}, o : BOOLEAN]

AggInit ==
    /\ pc = "function"
    /\ options = [total |-> 0, prefix |-> IOE, start |-> Num(0), limit |-> 1, outfile |-> FALSE]
    /\ InitProcess
    /\ arg \in {Some(x) : x \in AggInputs}
    /\ ret = None

\* utils.group(res)
AggGroup ==
    /\ pc = "function"
    /\ ret = None
    /\ ret' = Some([op |-> "group", groups |-> group(arg[1].res, now)])
    /\ UNCHANGED <<pc, options, now, BLOCKED, results, data, current, acc, batch, issued,
                   returned, fsPending, files, console, finals, hash, arg>>

\* utils.processFinalResults(res), argv.o being arg.o; its writes are queued
AggFinal ==
    /\ pc = "function"
    /\ ret = None
    /\ \E out \in processFinalResults(arg[1].res, now, arg[1].o) :
        /\ ret' = Some([op |-> "processFinalResults", groups |-> out.groups])
        /\ fsPending' = queued(fsPending, out)
        /\ console' = console \o out.printed
    /\ pc' = "finished"
    /\ UNCHANGED <<options, now, BLOCKED, results, data, current, acc, batch, issued,
                   returned, files, finals, hash, arg>>

AggNext ==
    \/ AggGroup
    \/ AggFinal
    \/ WriteTemp
    \/ WriteOut

SpecAgg == AggInit /\ [][AggNext]_vars

(***************************************************************************)
(* Vocabulary of the properties                                            *)
(***************************************************************************)
Last(seq) == seq[Len(seq)]

\* the result lookup i of batch b handed to async.map
ItemAt(b, i) == (CHOOSE r \in returned : r.batch = b /\ r.index = i).item

HasReturned(b, i) == \E r \in returned : r.batch = b /\ r.index = i

BatchReturned(b) == \A i \in DOMAIN issued[b] : HasReturned(b, i)

CompletedBatches == Cardinality({b \in DOMAIN issued : BatchReturned(b)})

\* the results of batches 1..k, batch after batch
RECURSIVE ResultsOfBatches(_)
ResultsOfBatches(k) ==
    IF k = 0 THEN <<>>
    ELSE ResultsOfBatches(k - 1) \o [i \in DOMAIN issued[k] |-> ItemAt(k, i)]

RECURSIVE FlatLen(_)
FlatLen(seqs) == IF seqs = <<>> THEN 0 ELSE Len(seqs[1]) + FlatLen(Tail(seqs))

\* lookups issued and not yet returned
Outstanding == FlatLen(issued) - Cardinality(returned)

Count(seq, x) == Cardinality({i \in DOMAIN seq : seq[i] = x})

SameBag(s1, s2) ==
    /\ Len(s1) = Len(s2)
    /\ \A i \in DOMAIN s1 : Count(s1, s1[i]) = Count(s2, s1[i])

\* the interrupt handler ran while a batch was in flight
InterruptedInFlight ==
    /\ pc = "exited"
    /\ batch # <<>>
    /\ Len(finals) = 1
    /\ finals[1].by = "SIGINT"

\* the rows of the raw export the last final processing built
ReportRows == IF fsPending.temp = <<>> THEN <<>> ELSE Last(fsPending.temp).rows

RECURSIVE NatDigits(_)
NatDigits(n) == IF n < 10 THEN 1 ELSE 1 + NatDigits(n \div 10)

\* the number of decimal digits of a non-negative case number
NumDigits(num) == IF num.hi > 0 THEN LimbDigits + NatDigits(num.hi) ELSE NatDigits(num.lo)

\* the number a string of at least LimbDigits digits denotes
DecimalValue(s) ==
    [hi |-> ParseNat(SubSeq(s, 1, Len(s) - LimbDigits)),
     lo |-> ParseNat(SubSeq(s, Len(s) - LimbDigits + 1, Len(s)))]

NumericPart(id, prefix) == SubSeq(id, Len(prefix) + 1, Len(id))

Max(a, b) == IF a >= b THEN a ELSE b

ValidRange(a) == geq(a.start, Num(0)) /\ a.count > 0

\* the process runs on a non-negative start and a positive total
ValidRun == pc # "function" /\ geq(options.start, Num(0)) /\ options.total > 0

IsBlockReply(reply) ==
    /\ ~reply.err
    /\ ~reply.body.error
    /\ reply.body.title = None \/ reply.body.text = None
    /\ reply.body.label = Some("accessviolation")

IsValidationReply(reply) ==
    /\ ~reply.err
    /\ ~reply.body.error
    /\ reply.body.title = None \/ reply.body.text = None
    /\ reply.body.label = Some("receipt_number")
    /\ reply.body.h4 # None
    /\ reply.body.h4[1][1] = "Validation"

(***************************************************************************)
(* Properties                                                              *)
(***************************************************************************)

\* C1: when the interrupt arrives with k batches completed and batch k+1 in
\* flight, the handler processes exactly the results of batches 1..k: its raw
\* export has one row per result of those batches and none for an identifier
\* of batch k+1.
C1_InterruptReportsCompletedBatches ==
    InterruptedInFlight =>
        LET expected == ResultsOfBatches(CompletedBatches) IN
        /\ CompletedBatches = Len(issued) - 1
        /\ finals[1].res = expected
        /\ SameBag(ReportRows, [i \in DOMAIN expected |-> outRow(expected[i], now)])
        /\ \A i \in DOMAIN batch, k \in DOMAIN ReportRows :
              ReportRows[k].CaseNumber # Some(batch[i].caseNum)

\* C1 witness: interrupted with one batch completed and the second partly returned
C1_Witness ==
    /\ InterruptedInFlight
    /\ CompletedBatches = 1
    /\ HasReturned(2, 1)
    /\ Len(ReportRows) = 2

\* C2: after an interrupt with a non-empty buffer, the raw export (and the
\* grouped export when an output path is configured) is on disk when the
\* process has exited.
C2_InterruptExportsWritten ==
    (ValidRun /\ pc = "exited" /\ finals # <<>> /\ Last(finals).by = "SIGINT"
        /\ Last(finals).res # <<>>) =>
        /\ \E f \in files.temp : f = Last(fsPending.temp)
        /\ options.outfile => files.out = Some(Last(fsPending.out))

\* C3: a lookup that meets the access-violation page sets BLOCKED; no step
\* that leaves BLOCKED set issues a lookup; and the step in which the batch
\* of the block completes runs the final processing over the results of all
\* batches issued.
C3_BlockStopsAndReports ==
    [][/\ \A r \in returned' \ returned, reply \in Replies :
            (IsBlockReply(reply) /\ Return(r.index, reply)) => BLOCKED'
       /\ BLOCKED' => issued' = issued
       /\ (pc = "batch" /\ returned' # returned /\ BLOCKED'
             /\ \A i \in DOMAIN batch : \E r \in returned' : r.batch = Len(issued) /\ r.index = i)
          => /\ pc' = "finished"
             /\ finals' = <<[by |-> "run", res |-> acc \o [i \in DOMAIN batch |->
                    (CHOOSE r \in returned' : r.batch = Len(issued) /\ r.index = i).item]]>>
             /\ acc = ResultsOfBatches(Len(issued) - 1)
             /\ hash' # None]_vars

\* C3 witness: a run stopped by the block before its range was exhausted,
\* with the results of its two batches processed
C3_Witness ==
    /\ pc = "finished"
    /\ BLOCKED
    /\ Len(issued) = 2
    /\ ~geq(current, data.end)
    /\ Len(finals[1].res) = FlatLen(issued)

\* C4: whatever the reply, the request callback hands one result to its
\* completion callback and raises nothing.
C4_PollerNeverRaises == ValidRun => pc # "crashed"

\* C5: lookups are issued only for the count identifiers of the range, and an
\* uninterrupted, unblocked run ends with exactly count results.
C5_LookupsWithinRange ==
    ValidRun =>
        /\ FlatLen(issued) <= options.total
        /\ \A b \in DOMAIN issued : \A i \in DOMAIN issued[b] :
              ~geq(DecimalValue(NumericPart(issued[b][i], options.prefix)),
                   add(options.start, options.total))
        /\ (pc = "finished" /\ ~BLOCKED) => Len(finals[1].res) = options.total

\* C6: with count <= 0 or start < 0 nothing is looked up, aggregated or
\* reported.
C6_InvalidRangeFailsFast ==
    (pc # "function" /\ (options.total <= 0 \/ ~geq(options.start, Num(0)))) =>
        /\ issued = <<>>
        /\ finals = <<>>
        /\ hash = None

\* C7: for a non-negative start and a positive count getParams gives count
\* identifiers, the i-th being the prefix followed by the zero-padded decimal
\* digits of start + i, so that they increase strictly and are distinct; IOE,
\* 900677923, 3 gives IOE0900677923, IOE0900677924, IOE0900677925.
C7_GeneratorYieldsRange ==
    (ret # None /\ ValidRange(arg[1])) =>
        LET a == arg[1]
            ids == ret[1]
        IN /\ Len(ids) = a.count
           /\ \A i \in DOMAIN ids :
                LET digits == NumericPart(ids[i], a.prefix) IN
                /\ SubSeq(ids[i], 1, Len(a.prefix)) = a.prefix
                /\ \A k \in DOMAIN digits : IsDigit(digits[k])
                /\ Len(digits) = Max(caseNumLength, NumDigits(add(a.start, i - 1)))
                /\ DecimalValue(digits) = add(a.start, i - 1)
           /\ \A i, j \in DOMAIN ids :
                (i < j) => /\ ids[i] # ids[j]
                           /\ ~geq(DecimalValue(NumericPart(ids[i], a.prefix)),
                                   DecimalValue(NumericPart(ids[j], a.prefix)))
           /\ (a.prefix = IOE /\ a.start = Num(900677923) /\ a.count = 3) =>
                ids = << IOE \o <<"0", "9", "0", "0", "6", "7", "7", "9", "2", "3">>,
                         IOE \o <<"0", "9", "0", "0", "6", "7", "7", "9", "2", "4">>,
                         IOE \o <<"0", "9", "0", "0", "6", "7", "7", "9", "2", "5">> >>

\* C7 witness: the identifiers of IOE, 900677923, 3 were generated
C7_Witness ==
    /\ ret # None
    /\ arg[1] = [prefix |-> IOE, start |-> Num(900677923), count |-> 3]
    /\ Len(ret[1]) = 3

\* C8 as stated: the numeric part of every identifier has caseNumLength digits.
C8_FixedWidth ==
    (ret # None /\ ValidRange(arg[1])) =>
        \A i \in DOMAIN ret[1] : Len(NumericPart(ret[1][i], arg[1].prefix)) = caseNumLength

\* C8 amended: the numeric part has caseNumLength digits when start + i has
\* at most that many, and otherwise the digits of start + i, untruncated.
C8_WidthAtLeast ==
    (ret # None /\ ValidRange(arg[1])) =>
        \A i \in DOMAIN ret[1] :
            LET n == add(arg[1].start, i - 1)
                width == Len(NumericPart(ret[1][i], arg[1].prefix))
            IN IF NumDigits(n) <= caseNumLength
               THEN width = caseNumLength
               ELSE width = NumDigits(n) /\ width > caseNumLength

\* C8 witness: a range that runs from ten-digit into eleven-digit numbers
C8_Witness ==
    /\ ret # None
    /\ ValidRange(arg[1])
    /\ \E i, j \in DOMAIN ret[1] :
        /\ Len(NumericPart(ret[1][i], arg[1].prefix)) = caseNumLength
        /\ Len(NumericPart(ret[1][j], arg[1].prefix)) = caseNumLength + 1

\* C9: at most limit lookups are outstanding, and every lookup of the batches
\* before the last one issued has returned.
C9_OneBatchOutstanding ==
    pc # "function" =>
        /\ Outstanding <= options.limit
        /\ \A b \in DOMAIN issued : b < Len(issued) => BatchReturned(b)

\* C9 witness: the second batch of a run of width 2 is wholly outstanding
C9_Witness ==
    /\ pc = "batch"
    /\ options.limit = 2
    /\ Len(issued) = 2
    /\ Outstanding = 2

\* C10: a lookup that meets the validation error of the receipt number hands
\* over a NEXIST result and leaves BLOCKED as it was; a lookup that meets the
\* access-violation page sets BLOCKED and its result is not NEXIST.
C10_BlockedDistinctFromNotFound ==
    [][\A r \in returned' \ returned, reply \in Replies :
          Return(r.index, reply) =>
            /\ IsValidationReply(reply) => (BLOCKED' = BLOCKED /\ r.item.type = Some("NEXIST"))
            /\ IsBlockReply(reply) => (BLOCKED' /\ r.item.type # Some("NEXIST"))]_vars

\* C10 witness: one batch holds a NEXIST result and the FAILED result of a
\* lookup that set BLOCKED
C10_Witness ==
    /\ BLOCKED
    /\ \E r1, r2 \in returned :
        /\ r1.batch = r2.batch
        /\ r1.item.type = Some("NEXIST")
        /\ r2.item.type = Some("FAILED")

\* an extraction failure with neither the access-violation label nor the
\* validation error
IsOtherFailureReply(reply) ==
    /\ ~reply.err
    /\ ~reply.body.error
    /\ reply.body.title = None \/ reply.body.text = None
    /\ reply.body.label # Some("accessviolation")
    /\ reply.body.label = Some("receipt_number") =>
          (reply.body.h4 # None /\ reply.body.h4[1][1] # "Validation")

\* C11: a lookup whose document cannot be extracted and carries neither the
\* access-violation label nor the validation error hands over a result of
\* type UNKNOWN, not FAILED, and leaves BLOCKED as it was.
C11_OtherFailureRecordedUnknown ==
    [][\A r \in returned' \ returned, reply \in Replies :
          (ValidRun /\ IsOtherFailureReply(reply) /\ Return(r.index, reply)) =>
            /\ r.item.type = Some("UNKNOWN")
            /\ r.item.type # Some("FAILED")
            /\ BLOCKED' = BLOCKED]_vars

\* C12: every result handed over carries the identifier of its lookup as its
\* caseNum, whatever the outcome, and once a batch has completed each of its
\* identifiers is the caseNum of exactly one result of the buffer.
C12_ResultsCarryIdentifier ==
    ValidRun =>
        /\ \A r \in returned : r.item.caseNum = Some(issued[r.batch][r.index])
        /\ \A b \in DOMAIN issued : BatchReturned(b) =>
              \A i \in DOMAIN issued[b] :
                  Cardinality({k \in DOMAIN results :
                                 results[k].caseNum = Some(issued[b][i])}) = 1

\* the lookups of the batch in flight that have not returned
Pending(b) == {i \in DOMAIN b : ~b[i].done}

\* C13: on a transport failure the lookup hands over a result of type FAILED
\* whose date is the current time (with the label of the current day), with
\* empty data and the identifier looked up; nothing is raised and BLOCKED is
\* left alone; the other lookups of the batch stay in flight, and when the
\* failed lookup is the last of its batch the buffer grows by the whole batch.
C13_TransportFailureIsAResult ==
    [][\A r \in returned' \ returned, reply \in Replies :
          (reply.err /\ Return(r.index, reply)) =>
            /\ r.item = [caseNum |-> Some(batch[r.index].caseNum),
                         type |-> Some("FAILED"),
                         date |-> Some([date |-> [valid |-> TRUE, unix |-> now],
                                        string |-> [valid |-> TRUE, day |-> now \div DaySecs]]),
                         data |-> Some(<<>>)]
            /\ pc' # "crashed"
            /\ BLOCKED' = BLOCKED
            /\ IF Pending(batch) # {r.index}
               THEN /\ pc' = "batch"
                    /\ Pending(batch') = Pending(batch) \ {r.index}
                    /\ finals' = finals
               ELSE /\ Len(results') = Len(acc) + Len(batch)
                    /\ results'[Len(acc) + r.index] = r.item]_vars

\* C13 witness: a batch of two whose first lookup failed in transport and
\* whose second was classified is in the buffer
C13_Witness ==
    /\ Len(results) = 2
    /\ results[1].type = Some("FAILED")
    /\ results[1].caseNum = Some(issued[1][1])
    /\ results[1].date[1].date.unix \in {Now0, Now0 + 1}
    /\ results[2].type = Some("APPROVED")
    /\ ~BLOCKED

\* the document has a heading and a body text for the classifier to read
IsStatusDom(dom) == ~dom.error /\ dom.title # None /\ dom.text # None

\* C14: the classification of a document with a heading and a body text never
\* fails: a heading that is a key of titleToType gives the mapped type and
\* logs nothing (Case Was Approved gives APPROVED), and any other heading
\* (Something New) gives UNKNOWN and logs the unknown key.
C14_HeadingLookupTotal ==
    (ret # None /\ IsStatusDom(arg[1])) =>
        LET title == arg[1].title[1] IN
        \A k \in DOMAIN ret :
            /\ ~ret[k].threw
            /\ ret[k].err = None
            /\ ret[k].res # None
            /\ ret[k].res[1].data = <<arg[1].text[1], title>>
            /\ IF title \in DOMAIN titleToType
               THEN /\ ret[k].res[1].type = titleToType[title]
                    /\ console = <<>>
               ELSE /\ ret[k].res[1].type = "UNKNOWN"
                    /\ console = [j \in DOMAIN ret |-> <<"unknown key", title>>]
            /\ title = "Case Was Approved" => ret[k].res[1].type = "APPROVED"
            /\ title = "Something New" => ret[k].res[1].type = "UNKNOWN"

\* C14 witness: a heading outside the map was classified and logged
C14_Witness ==
    /\ ret # None
    /\ IsStatusDom(arg[1])
    /\ arg[1].title = Some("Something New")
    /\ ret[1].res[1].type = "UNKNOWN"
    /\ console # <<>>

\* the document's body text is missing, or does not start with a date
IsUndatedReply(reply) ==
    /\ ~reply.err
    /\ ~reply.body.error
    /\ reply.body.text = None \/ ~reply.body.text[1].dated

\* the date getDate gives for the current time t
NowDate(t) == [date |-> [valid |-> TRUE, unix |-> t],
               string |-> [valid |-> TRUE, day |-> t \div DaySecs]]

\* C15: a lookup whose document has a body text that does not start with a
\* date hands over a result whose date is the current time with the label of
\* the current day (a document with no body text at all is an extraction
\* failure, whose result is the one of C11 to C13).
C15_UnparsedDateIsNow ==
    [][\A r \in returned' \ returned, reply \in Replies :
          (ValidRun /\ IsUndatedReply(reply) /\ reply.body.text # None
             /\ Return(r.index, reply)) =>
            r.item.date = Some(NowDate(now))]_vars

\* the buckets of a grouping in iteration order: date after date, and type
\* after type within a date
RECURSIVE BucketsOf(_, _)
BucketsOf(groups, i) ==
    IF i > Len(groups) THEN <<>> ELSE groups[i].types \o BucketsOf(groups, i + 1)

RECURSIVE SumTotals(_)
SumTotals(bs) == IF bs = <<>> THEN 0 ELSE bs[1].total + SumTotals(Tail(bs))

\* the date label and the type a result is grouped under
KeyOf(item, t) == <<itemDateString(item, t), itemType(item)>>

BucketKey(b) == <<b.date, b.type>>

\* the results of res with a key, in the order of res
WithKey(res, key, t) == LET Test(x) == KeyOf(x, t) = key IN SelectSeq(res, Test)

\* C16: group(res) has one bucket per (date label, type) of res; the members
\* of a bucket are the results of res with its key, each once, and its total
\* is their number, so that the totals add up to the length of res and every
\* result is in the bucket of its key and in no other.
C16_GroupPartitionsInput ==
    (ret # None /\ ret[1].op = "group") =>
        LET res == arg[1].res
            groups == ret[1].groups
            bs == BucketsOf(groups, 1)
        IN /\ SumTotals(bs) = Len(res)
           /\ \A i \in DOMAIN res :
                Cardinality({k \in DOMAIN bs : \E n \in DOMAIN bs[k].items :
                                                  bs[k].items[n] = res[i]}) = 1
           /\ \A i \in DOMAIN res : \E k \in DOMAIN bs : BucketKey(bs[k]) = KeyOf(res[i], now)
           /\ \A k \in DOMAIN bs :
                /\ bs[k].items = WithKey(res, BucketKey(bs[k]), now)
                /\ bs[k].total = Len(bs[k].items)
                /\ bs[k].total > 0
           /\ \A k, n \in DOMAIN bs : (k # n) => BucketKey(bs[k]) # BucketKey(bs[n])
           /\ \A g \in DOMAIN groups : \A k \in DOMAIN groups[g].types :
                groups[g].types[k].date = groups[g].date

\* C16 witness: three results were grouped into a bucket of two and a bucket
\* of one
C16_Witness ==
    /\ ret # None
    /\ ret[1].op = "group"
    /\ Len(arg[1].res) = 3
    /\ LET bs == BucketsOf(ret[1].groups, 1) IN
       /\ Len(bs) = 2
       /\ bs[1].total = 2
       /\ bs[2].total = 1
       /\ bs[1].items = <<arg[1].res[1], arg[1].res[3]>>

\* a is a later time than b; NaN is neither later nor earlier than anything
Later(a, b) == a # NaN /\ b # NaN /\ a > b

\* no key is followed by an earlier one
NonDecreasing(keys) == \A i, j \in DOMAIN keys : (i < j) => ~Later(keys[i], keys[j])

\* C17: iterating the buckets of group(res) visits them in non-decreasing
\* order of their unix, whatever the order of res.
C17_BucketsInTimestampOrder ==
    (ret # None /\ ret[1].op = "group") =>
        LET bs == BucketsOf(ret[1].groups, 1) IN
        NonDecreasing([k \in DOMAIN bs |-> bs[k].unix])

\* the final processing of a non-empty buffer has run
Processed == ret # None /\ ret[1].op = "processFinalResults" /\ Len(arg[1].res) > 0

\* the number of results of res with a key
CountKey(res, key, t) == Cardinality({i \in DOMAIN res : KeyOf(res[i], t) = key})

\* C18: the summary printed for a non-empty buffer has one entry per date
\* label of the buffer, each label once; the labels of a day are in
\* increasing order of their day (the label Invalid date, which is of no day,
\* comes last); and the entry of a label lists each type present under that
\* label once, with the number of results of that label and type.
C18_SummaryChronological ==
    Processed =>
        LET res == arg[1].res IN
        /\ {console[i].date : i \in DOMAIN console} =
              {itemDateString(res[k], now) : k \in DOMAIN res}
        /\ \A i, j \in DOMAIN console :
              (i < j) => /\ console[i].date # console[j].date
                         /\ console[j].date.valid =>
                               (console[i].date.valid /\ console[i].date.day < console[j].date.day)
        /\ \A i \in DOMAIN console :
              LET types == console[i].types IN
              /\ {types[n].type : n \in DOMAIN types} =
                    {itemType(res[k]) : k \in {m \in DOMAIN res :
                                           itemDateString(res[m], now) = console[i].date}}
              /\ \A n, m \in DOMAIN types : (n # m) => types[n].type # types[m].type
              /\ \A n \in DOMAIN types :
                    types[n].total = CountKey(res, <<console[i].date, types[n].type>>, now)

\* C18 witness: a buffer whose later day comes first is summarised with the
\* earlier day first, and a day lists two types
C18_Witness ==
    /\ Processed
    /\ Len(console) = 2
    /\ itemDateString(arg[1].res[1], now) = console[2].date
    /\ console[1].date.valid /\ console[2].date.valid
    /\ Len(console[2].types) = 2

\* the raw export of the final processing, queued or on disk
RawExport ==
    IF fsPending.temp # <<>> THEN Last(fsPending.temp) ELSE CHOOSE f \in files.temp : TRUE

\* C19: the raw export built from a non-empty buffer has one row per result
\* of the buffer, with the result's date label, unix, type and case number
\* (the same multiset of case numbers and types); no row is followed by a row
\* of an earlier unix, and the rows without a unix (NaN) come last.
C19_RawExportRows ==
    Processed =>
        LET res == arg[1].res
            rows == RawExport.rows
        IN /\ Len(rows) = Len(res)
           /\ SameBag([i \in DOMAIN rows |-> <<rows[i].CaseNumber, rows[i].Type>>],
                      [i \in DOMAIN res |-> <<res[i].caseNum, itemType(res[i])>>])
           /\ SameBag(rows,
                      [i \in DOMAIN res |->
                          [Date |-> itemDateString(res[i], now),
                           Unix |-> IF res[i].date = None THEN now
                                    ELSE IF res[i].date[1].date.valid
                                         THEN res[i].date[1].date.unix ELSE NaN,
                           Type |-> itemType(res[i]),
                           CaseNumber |-> res[i].caseNum]])
           /\ NonDecreasing([i \in DOMAIN rows |-> rows[i].Unix])
           /\ \A i, j \in DOMAIN rows : (i < j /\ rows[i].Unix = NaN) => rows[j].Unix = NaN

\* C19 witness: a buffer of three results, not in the order of their unix and
\* one of them without a unix, was exported
C19_Witness ==
    /\ Processed
    /\ Len(arg[1].res) = 3
    /\ arg[1].res[1].date # None
    /\ arg[1].res[1].date[1].date.valid = FALSE
    /\ arg[1].res[2].date # None /\ arg[1].res[3].date # None
    /\ Later(unix(arg[1].res[2].date[1].date), unix(arg[1].res[3].date[1].date))
    /\ RawExport.rows[3].Unix = NaN
    /\ RawExport.rows[1].CaseNumber # RawExport.rows[2].CaseNumber

\* a write of the grouped export was issued: it is queued or on disk
OutWritten == fsPending.out # <<>> \/ files.out # None

GroupedExport == IF fsPending.out # <<>> THEN Last(fsPending.out) ELSE files.out[1]

RECURSIVE SumApplications(_)
SumApplications(rows) ==
    IF rows = <<>> THEN 0 ELSE rows[1].Applications + SumApplications(Tail(rows))

\* C20: the grouped export is written exactly when the final processing ran
\* with an output path and a non-empty buffer; it then has one row per (date
\* label, type) of the buffer, whose Applications is the number of results of
\* that key, so that the Applications add up to the length of the buffer; no
\* row is followed by a row of an earlier unix, and the rows without a unix
\* (NaN) come last.
C20_GroupedExportRows ==
    /\ OutWritten <=> (ret # None /\ ret[1].op = "processFinalResults"
                         /\ arg[1].o /\ Len(arg[1].res) > 0)
    /\ OutWritten =>
        LET res == arg[1].res
            rows == GroupedExport
        IN /\ {<<rows[i].Date, rows[i].Type>> : i \in DOMAIN rows} =
                 {KeyOf(res[k], now) : k \in DOMAIN res}
           /\ \A i, j \in DOMAIN rows :
                 (i # j) => <<rows[i].Date, rows[i].Type>> # <<rows[j].Date, rows[j].Type>>
           /\ \A i \in DOMAIN rows :
                 rows[i].Applications = CountKey(res, <<rows[i].Date, rows[i].Type>>, now)
           /\ SumApplications(rows) = Len(res)
           /\ NonDecreasing([i \in DOMAIN rows |-> rows[i].Unix])
           /\ \A i, j \in DOMAIN rows : (i < j /\ rows[i].Unix = NaN) => rows[j].Unix = NaN

\* C20 witness: the grouped export of three results in two buckets, the
\* later one met first, is on disk
C20_Witness ==
    /\ files.out # None
    /\ arg[1].o
    /\ Len(arg[1].res) = 3
    /\ Len(files.out[1]) = 2
    /\ files.out[1][2].Applications = 2
    /\ KeyOf(arg[1].res[1], now) = <<files.out[1][2].Date, files.out[1][2].Type>>
    /\ Later(files.out[1][2].Unix, files.out[1][1].Unix)

\* the entries of the console that writeStats printed, and those the write
\* callbacks logged
SummaryEntries == LET Test(e) == "date" \in DOMAIN e IN SelectSeq(console, Test)

FailureEntries == LET Test(e) == "failed" \in DOMAIN e IN SelectSeq(console, Test)

\* C21: when a queued write of the raw or of the grouped export fails, the
\* failure is logged and nothing else changes: the summary printed before
\* stays printed, the final callback has received the grouping and keeps it,
\* the process goes on, and the buffer, the files and the other queued
\* writes are as they were.
C21_WriteFailureOnlyReported ==
    [][\A kind \in {"temp", "out"} :
          (pc = "finished" /\ Len(fsPending'[kind]) < Len(fsPending[kind]) /\ files' = files) =>
            /\ console' = Append(console, FailedToSave(kind))
            /\ pc' = "finished"
            /\ hash # None
            /\ hash' = hash
            /\ Len(SummaryEntries) = Len(hash[1])
            /\ \A k \in {"temp", "out"} \ {kind} : fsPending'[k] = fsPending[k]
            /\ UNCHANGED <<BLOCKED, results, current, acc, batch, issued, returned, finals>>]_vars

\* C21 witness: both writes of a run failed, and the process ended with the
\* summary printed and the grouping handed to the final callback
C21_Witness ==
    /\ pc = "exited"
    /\ Len(FailureEntries) = 2
    /\ files = NoFiles
    /\ hash # None
    /\ Len(SummaryEntries) = 2

\* the step in which the last outstanding lookup of the batch returns
Completes == pc = "batch" /\ \E r \in returned' \ returned : Pending(batch) = {r.index}

\* the results of the lookups of batch b in the order of their identifiers,
\* in a set of returned results
BatchItems(b, rs) ==
    [i \in DOMAIN issued[b] |-> (CHOOSE r \in rs : r.batch = b /\ r.index = i).item]

\* C22: once the run has started, the buffer the interrupt handler reads
\* (results) and the cursor change in no step but the one in which the last
\* outstanding lookup of the batch returns; in that step the results of all
\* the lookups of the batch are appended to the buffer and the cursor
\* advances by one batch width.
C22_ChangesAtBatchBoundaries ==
    [][/\ (pc # "start" /\ ~Completes) => (results' = results /\ current' = current)
       /\ Completes =>
            /\ Len(results') = Len(results) + Len(batch)
            /\ SubSeq(results', 1, Len(results)) = results
            /\ SameBag(SubSeq(results', Len(results) + 1, Len(results')),
                       BatchItems(Len(issued), returned'))
            /\ current' = add(current, data.intervalSize)]_vars

\* C22 witness: the first of two lookups of the second batch has returned,
\* and the buffer and the cursor are those the first batch left
C22_Witness ==
    /\ pc = "batch"
    /\ Len(issued) = 2
    /\ Len(batch) = 2
    /\ Cardinality(Pending(batch)) = 1
    /\ Len(results) = 2
    /\ current = add(parseInt(options.start), 2)

\* C23: when a lookup returns with BLOCKED set while other lookups of its
\* batch are outstanding, those stay in flight and nothing is finalised or
\* issued; and when the last lookup of a batch returns with BLOCKED set, the
\* results of all the lookups of that batch, in addition to those of the
\* batches before, are in the buffer the final processing receives.
C23_BlockKeepsSiblings ==
    [][/\ (pc = "batch" /\ BLOCKED' /\ returned' # returned /\ ~Completes) =>
            /\ pc' = "batch"
            /\ \E r \in returned' \ returned : Pending(batch') = Pending(batch) \ {r.index}
            /\ Pending(batch') # {}
            /\ finals' = finals
            /\ issued' = issued
       /\ (BLOCKED' /\ Completes) =>
            /\ pc' = "finished"
            /\ issued' = issued
            /\ Len(results') = FlatLen(issued)
            /\ SameBag(SubSeq(results', Len(results) + 1, Len(results')),
                       BatchItems(Len(issued), returned'))
            /\ finals' = <<[by |-> "run", res |-> results']>>]_vars

\* C23 witness: the first lookup of a batch of two met the block, the second
\* was classified afterwards, and both results reached the final processing
C23_Witness ==
    /\ pc = "finished"
    /\ BLOCKED
    /\ Len(issued) = 1
    /\ Len(issued[1]) = 2
    /\ Len(finals[1].res) = 2
    /\ finals[1].res[1].type = Some("FAILED")
    /\ finals[1].res[2].type = Some("APPROVED")

\* the how-manieth of its batch lookup i returns, in the step that completes
\* the batch: the lookup returning in that step is the last
RankAtCompletion(i) == IF batch[i].done THEN batch[i].rank ELSE Len(batch)

\* C24 as stated: when a batch completes, its results are appended in the
\* order in which its lookups returned, after the results of the batches
\* before.
C24_CompletionOrder ==
    [][Completes =>
          /\ SubSeq(results', 1, Len(results)) = results
          /\ \A i \in DOMAIN batch :
                results'[Len(results) + RankAtCompletion(i)] =
                    BatchItems(Len(issued), returned')[i]]_vars

\* C24 amended: when a batch completes, its results are appended in the
\* order in which its lookups were submitted (the order of their
\* identifiers), whatever the order in which they returned, after the
\* results of the batches before.
C24_SubmissionOrder ==
    [][Completes =>
          /\ SubSeq(results', 1, Len(results)) = results
          /\ Len(results') = Len(results) + Len(batch)
          /\ \A i \in DOMAIN batch :
                results'[Len(results) + i] = BatchItems(Len(issued), returned')[i]
          /\ results = ResultsOfBatches(Len(issued) - 1)]_vars

\* C24 witness: of a batch of two transport failures the second lookup
\* returned a clock tick before the first, and the first is first in the
\* buffer
C24_Witness ==
    /\ Len(results) = 2
    /\ Len(issued[1]) = 2
    /\ results[1].type = Some("FAILED")
    /\ results[2].type = Some("FAILED")
    /\ results[1].caseNum = Some(issued[1][1])
    /\ results[2].caseNum = Some(issued[1][2])
    /\ results[1].date[1].date.unix = Now0 + 1
    /\ results[2].date[1].date.unix = Now0

\* the start of the day of a time
DayStart(u) == IF u = NaN THEN NaN ELSE (u \div DaySecs) * DaySecs

\* C25: the unix of a bucket of group(res) is the start of the day of its
\* first member's date, and so the same for every order of the results of
\* one date label: the start of the day of the label.
C25_BucketUnixDayTruncated ==
    (ret # None /\ ret[1].op = "group") =>
        LET bs == BucketsOf(ret[1].groups, 1) IN
        \A k \in DOMAIN bs :
            /\ bs[k].unix = DayStart(unix(itemDate(bs[k].items[1], now)))
            /\ bs[k].date.valid => bs[k].unix = bs[k].date.day * DaySecs

\* the final processing has run once, on behalf of run, and the final
\* callback has received its grouping
RanToCompletion ==
    /\ pc = "finished"
    /\ Len(finals) = 1
    /\ finals[1].by = "run"
    /\ hash # None
    /\ batch = <<>>
    /\ BLOCKED \/ geq(current, data.end)

\* C26: with a positive total (the batch width is positive), no interrupt
\* and every request answered, the run reaches the state in which no batch is
\* in flight, BLOCKED is set or the cursor has reached the end, and the final
\* processing and the final callback have run exactly once, and it stays
\* there; unless a request callback raises, in which case that lookup never
\* returns.
C26_RunTerminates ==
    (options.total > 0) => <>[](RanToCompletion \/ pc = "crashed")

\* C26 witness: a run of two batches ended by exhausting its range
C26_Witness ==
    /\ RanToCompletion
    /\ ~BLOCKED
    /\ Len(issued) = 2
    /\ options.total > 0

Aggregates == Len(finals') = Len(finals) + 1

\* C28: the final processing and the exports leave the buffer, the cursor and
\* BLOCKED alone. A final processing started by the interrupt handler reads
\* the buffer and changes none of the three; one started by run receives the
\* buffer the scheduler has just stored, and leaves it as stored. The buffer
\* and the cursor change only in the step that completes a batch, which
\* appends the results of that batch, and BLOCKED changes only in the return
\* of a lookup that met the access-violation page.
C28_AggregationReadsOnly ==
    [][/\ (Aggregates /\ Last(finals').by = "SIGINT") =>
            /\ Last(finals').res = results
            /\ results' = results
            /\ current' = current
            /\ BLOCKED' = BLOCKED
       /\ (Aggregates /\ Last(finals').by = "run") =>
            /\ results' = Last(finals').res
            /\ pc = "start" => results' = results
            /\ pc = "batch" => results' = results \o BatchItems(Len(issued), returned')
       /\ (results' # results \/ (pc # "start" /\ current' # current)) => Completes
       /\ BLOCKED' # BLOCKED =>
            \E r \in returned' \ returned, reply \in Replies :
                IsBlockReply(reply) /\ Return(r.index, reply)]_vars

\* C28 witness: the interrupt handler has processed a buffer of two results
\* with BLOCKED set, and the buffer still holds them
C28_Witness ==
    /\ pc = "exited"
    /\ Last(finals).by = "SIGINT"
    /\ Len(results) = 2
    /\ Last(finals).res = results
    /\ BLOCKED
    /\ console # <<>>

\* C29: after every recursiveHelper call the buffer holds as many results as
\* the cursor is past the start, and no step removes or reorders results:
\* the buffer after a step begins with the buffer before it.
C29_BufferCountsAndExtends ==
    [][/\ pc' # "start" => current' = add(parseInt(options.start), Len(results'))
       /\ Len(results') >= Len(results)
       /\ SubSeq(results', 1, Len(results)) = results]_vars

\* C29 witness: the interrupt handler saw the two results of the first batch
\* while the second batch was in flight, the cursor two past the start
C29_Witness ==
    /\ pc = "exited"
    /\ batch # <<>>
    /\ Len(issued) = 2
    /\ Len(Last(finals).res) = 2
    /\ Last(finals).res = results
    /\ current = add(parseInt(options.start), 2)

\* C30: BLOCKED is false until a lookup has returned; a step sets it only
\* when the lookup returning in it met the access-violation page; no step
\* clears it; and the stop test of no later recursiveHelper call finds it
\* false: with BLOCKED set before a step, the step issues no batch.
C30_BlockedMonotonic ==
    [][/\ returned = {} => ~BLOCKED
       /\ BLOCKED => BLOCKED'
       /\ (~BLOCKED /\ BLOCKED') =>
            \A r \in returned' \ returned, reply \in Replies :
                Return(r.index, reply) => IsBlockReply(reply)
       /\ (~BLOCKED /\ BLOCKED') => returned' # returned
       /\ BLOCKED => issued' = issued]_vars

\* C30 witness: the first lookup of a batch met the access-violation page, the
\* second returned a second later with a validation error, and the run ended
\* with BLOCKED set
C30_Witness ==
    /\ pc = "finished"
    /\ BLOCKED
    /\ Len(issued) = 1
    /\ Len(results) = 2
    /\ results[1].type = Some("FAILED")
    /\ results[1].date[1].date.unix = Now0
    /\ results[2].type = Some("NEXIST")
    /\ fsPending.temp # <<>>
    /\ fsPending.temp[1].stamp = Now0 + 1

\* C31: processFinalResults runs at most once in a process, whether the run
\* ends by exhausting its range, by the block or by the interrupt, and also
\* when the interrupt arrives after run has queued its exports and before
\* the process has exited.
C31_FinalProcessingAtMostOnce == Len(finals) <= 1

\* C32: a final processing of an empty buffer, by the interrupt handler
\* before the first batch has completed or by run on an empty range, queues
\* no write, prints nothing and returns the empty grouping: while every
\* final processing so far was of an empty buffer, no write is pending, no
\* file exists, nothing was printed, and the final callback of run, if it
\* was called, received the empty grouping.
C32_EmptyBufferReportsNothing ==
    (finals # <<>> /\ \A k \in DOMAIN finals : finals[k].res = <<>>) =>
        /\ fsPending = NoWrites
        /\ files = NoFiles
        /\ console = <<>>
        /\ Last(finals).by = "run" => hash = Some(<<>>)
        /\ Last(finals).by = "SIGINT" => hash = None

\* C32 witness: the interrupt handler ran while the first batch was in
\* flight, one of its two lookups having returned
C32_Witness ==
    /\ pc = "exited"
    /\ Len(finals) = 1
    /\ finals[1].res = <<>>
    /\ Len(issued) = 1
    /\ Cardinality(returned) = 1
    /\ Cardinality(Pending(batch)) = 1
    /\ fsPending = NoWrites
    /\ console = <<>>

====
